---- MODULE Spec2Model ----
(***************************************************************************)
(* Model of the two bootstrap tools of the repository:                     *)
(*   scripts/manage_db.py      up / down of a PostgreSQL database          *)
(*   scripts/manage_topics.py  create / delete of a set of Kafka topics    *)
(* Each tool is a sequential process; the operator runs one invocation     *)
(* after the other against a server whose state persists between runs.     *)
(* A text is a sequence of one-character strings.                          *)
(***************************************************************************)
EXTENDS Integers, Sequences, FiniteSets, TLC

\* ------------------------------------------------------------------ bounds
\* Successive invocations of a tool against the same server.
MaxRuns == 2
\* Size of the universe of topic names.
NumTopics == 3
\* The longest schema script the filter is applied to, in characters.
MaxScriptLen == 4

VARIABLES
    \* the PostgreSQL server
    databases,        \* names of the databases that exist
    content,          \* committed objects of each database
    \* one invocation of manage_db.py
    pc,               \* position of the process
    args,             \* parsed arguments: action, dbname
    conn_admin,       \* "none" | "open" | "closed"
    conn_target,      \* "none" | "open" | "closed"
    sql_script,       \* text read from SQL_FILE
    cleaned_sql,      \* text handed to cur.execute
    calls,            \* requests issued in this run, in order, with results
    executed,         \* statements of the script the server has executed
    sql_log,          \* SQL executed in this run: on which database's
                      \* connection, and with which autocommit setting
    exitCode,         \* -1 while running, else the exit status
    startDatabases,   \* databases when the run started
    startContent,     \* content when the run started
    prev,             \* summary of the previous run on this server
    runs,             \* invocations started so far
    \* the Kafka cluster
    clusterTopics,    \* names of the topics that exist
    \* one invocation of manage_topics.py
    tpc,              \* position of the process
    environ,          \* KAFKA_BOOTSTRAP_SERVERS, KAFKA_USER, KAFKA_PASSWORD
    taction,          \* args.action
    topic_names,      \* the list handed to create_topics / delete_topics
    admin_client,     \* "none" | "open" | "closed"
    existing_topics,  \* result of list_topics
    topics_to_create, \* names of the NewTopic list
    requests,         \* requests issued in this run, in order, with results
    escaped,          \* an exception left create_topics / delete_topics
    texit,            \* -1 while running, else the exit status
    startTopics,      \* clusterTopics when the run started
    tprev,            \* summary of the previous run on this cluster
    raced,            \* topics other clients created during this run
    truns             \* invocations started so far

dbVars == <<databases, content, pc, args, conn_admin, conn_target, sql_script,
            cleaned_sql, calls, executed, sql_log, exitCode, startDatabases,
            startContent, prev, runs>>

topicVars == <<clusterTopics, tpc, environ, taction, topic_names, admin_client,
               existing_topics, topics_to_create, requests, escaped, texit,
               startTopics, tprev, raced, truns>>

vars == <<dbVars, topicVars>>

\* ------------------------------------------------------------------- texts
NL == "\n"
BS == "\\"
SP == " "
TAB == "\t"
\* Characters str.strip() removes.
Whitespace == {SP, TAB, NL}

\* str.split(sep) for a one-character separator: always at least one piece.
Split(text, sep) ==
    LET RECURSIVE Go(_, _, _)
        Go(i, cur, acc) ==
            IF i > Len(text) THEN Append(acc, cur)
            ELSE IF text[i] = sep THEN Go(i + 1, <<>>, Append(acc, cur))
            ELSE Go(i + 1, Append(cur, text[i]), acc)
    IN Go(1, <<>>, <<>>)

RECURSIVE Join(_, _)
\* sep.join(pieces)
Join(pieces, sep) ==
    IF Len(pieces) = 0 THEN <<>>
    ELSE IF Len(pieces) = 1 THEN pieces[1]
    ELSE pieces[1] \o <<sep>> \o Join(Tail(pieces), sep)

RECURSIVE LStrip(_)
LStrip(line) ==
    IF Len(line) > 0 /\ line[1] \in Whitespace THEN LStrip(Tail(line)) ELSE line

RECURSIVE RStrip(_)
RStrip(line) ==
    IF Len(line) > 0 /\ line[Len(line)] \in Whitespace
    THEN RStrip(SubSeq(line, 1, Len(line) - 1))
    ELSE line

\* str.strip()
Strip(line) == RStrip(LStrip(line))

\* str.startswith(c) for a one-character prefix
StartsWith(line, c) == Len(line) > 0 /\ line[1] = c

\* Faulty variant: the line is tested without strip().
KeepLineNoStrip(line) == ~StartsWith(line, BS)
\* The test of the generator expression: the line is kept.
KeepLine(line) == ~StartsWith(Strip(line), BS)

\* cleaned_sql of a script text.
CleanSql(text) == Join(SelectSeq(Split(text, NL), KeepLine), NL)

\* ------------------------------------------------- the PostgreSQL server
\* The administrative database of every server, and the default target.
DbNames == {"postgres", "ecommerce"}

\* Contents SQL_FILE may have: statements a and b, one per line, with
\* psql meta-command lines (plain and indented) between them.
SqlFiles ==
    { <<"a">>,
      <<"a", NL, "b">>,
      <<BS, "c", NL, "a", NL, SP, BS, "c", NL, "b">>,
      <<"a", NL, BS, "c">> }

\* The objects a statement can create: the statement's own line.
Objects == { <<"a">>, <<"b">> }

NonBlank(line) == Strip(line) /= <<>>

\* The statements the server finds in a script text, in order.
Statements(text) == SelectSeq(Split(text, NL), NonBlank)

\* The server cannot execute a psql meta-command.
Executable(stmt) == ~StartsWith(Strip(stmt), BS)

\* The objects created by the first k statements.
Created(stmts, k) == { stmts[i] : i \in 1..k }

\* What a connection's work leaves in the database: in autocommit mode
\* every executed statement persists at once, otherwise only a committed
\* transaction does.
Persisted(old, done, autocommit, committed) ==
    IF autocommit \/ committed THEN old \cup done ELSE old

\* Results the server can give to CREATE DATABASE name.
\* "duplicate" is DuplicateDatabase, "error" any other rejection.
CreateDatabaseResults(name, dbs) ==
    IF name \in dbs THEN {"duplicate", "error"} ELSE {"ok", "error"}

\* Variant: the answers to DROP DATABASE name, without IF EXISTS.
DropDatabaseNoIfExists(name, dbs, connected) ==
    IF name \notin dbs THEN {"does_not_exist", "error"}
    ELSE IF name = connected THEN {"error"}
    ELSE {"ok", "error"}

\* Results the server can give to DROP DATABASE IF EXISTS name, issued on
\* a connection to the database `connected`: an absent database is no
\* error, the currently open database cannot be dropped.
DropDatabaseResults(name, dbs, connected) ==
    IF name \notin dbs THEN {"ok", "error"}
    ELSE IF name = connected THEN {"error"}
    ELSE {"ok", "error"}

\* Results of psycopg2.connect to database name.
ConnectResults(name, dbs) ==
    IF name \in dbs THEN {"ok", "operational_error"} ELSE {"operational_error"}

\* ------------------------------------------------------- manage_db.py
NoRun == [action |-> "none", dbname |-> "", exitCode |-> -1, calls |-> <<>>]

Call(op, res) == [op |-> op, res |-> res]

Ops == { calls[i].op : i \in DOMAIN calls }

\* The result of the call op of this run ("" when it was not made).
ResultOf(op) ==
    IF \E i \in DOMAIN calls : calls[i].op = op
    THEN calls[CHOOSE i \in DOMAIN calls : calls[i].op = op].res
    ELSE ""

\* dbname of db_config
ConfigDbname(db_override) ==
    IF db_override /= "" THEN db_override ELSE args.dbname

\* Faulty variant: the admin connection left in a transaction block.
AdminAutocommitOff == FALSE
\* conn_admin.autocommit
AdminAutocommit == TRUE

\* An entry of the SQL log: a statement, the database its connection is
\* bound to, the connection's autocommit setting.
Sql(stmt, db, autocommit) == [stmt |-> stmt, db |-> db, autocommit |-> autocommit]

\* CREATE DATABASE and DROP DATABASE cannot run inside a transaction
\* block: without autocommit the server rejects them.
OutsideTransaction(results, autocommit) ==
    IF autocommit THEN results ELSE {"error"}

\* Faulty variant: no close in the finally clause.
FinallyCloseMissing(conn) == conn
\* The finally clauses of up and down: conn.close().
FinallyClose(conn) == "closed"

\* Faulty variant: the target connection left in autocommit mode.
TargetAutocommitOn == TRUE
\* conn_target.autocommit
TargetAutocommit == FALSE

\* Variant: an existence check before the statement.
CreateStatementsIfAbsent(name, dbs) ==
    IF name \in dbs THEN <<>> ELSE <<"create_database">>
\* The statements up executes on the admin connection.
CreateStatements(name, dbs) == <<"create_database">>

\* Faulty variant: no sys.exit(1) in the last except clause.
CreateHandlerNoExit(res) == "continue"
\* Faulty variant: no except clause for DuplicateDatabase.
CreateHandlerStrict(res) == IF res = "ok" THEN "continue" ELSE "exit"
\* The except clauses around CREATE DATABASE: DuplicateDatabase is logged
\* and the run goes on, any other exception ends it with sys.exit(1).
CreateHandler(res) ==
    IF res \in {"ok", "duplicate"} THEN "continue" ELSE "exit"

\* Faulty variant: no sys.exit(1) in the except clause.
DropHandlerNoExit(res) == "continue"
\* The except clause around DROP DATABASE: sys.exit(1).
DropHandler(res) == IF res = "ok" THEN "continue" ELSE "exit"

InitDbVars ==
    /\ databases \in { dbs \in SUBSET DbNames : "postgres" \in dbs }
    /\ content \in { c \in [DbNames -> SUBSET Objects] :
                        \A d \in DbNames : d \notin databases => c[d] = {} }
    /\ pc = "idle"
    /\ args = [action |-> "none", dbname |-> ""]
    /\ conn_admin = "none"
    /\ conn_target = "none"
    /\ sql_script = <<>>
    /\ cleaned_sql = <<>>
    /\ calls = <<>>
    /\ executed = 0
    /\ sql_log = <<>>
    /\ exitCode = -1
    /\ startDatabases = databases
    /\ startContent = content
    /\ prev = NoRun
    /\ runs = 0

\* The process before its first invocation, on a fresh server.
IdleDb ==
    /\ databases = {"postgres"}
    /\ content = [d \in DbNames |-> {}]
    /\ pc = "idle"
    /\ args = [action |-> "none", dbname |-> ""]
    /\ conn_admin = "none"
    /\ conn_target = "none"
    /\ sql_script = <<>>
    /\ cleaned_sql = <<>>
    /\ calls = <<>>
    /\ executed = 0
    /\ sql_log = <<>>
    /\ exitCode = -1
    /\ startDatabases = databases
    /\ startContent = content
    /\ prev = NoRun
    /\ runs = 0

\* sys.exit(code), or the interpreter ending on an uncaught exception (1)
\* or at the end of the script (0).
Exit(code) ==
    /\ pc' = "done"
    /\ exitCode' = code

\* __main__: parse the arguments and dispatch. The operator starts an
\* invocation when no other one is in progress.
Main ==
    /\ pc = "idle"
    /\ tpc = "idle"
    /\ runs + truns < MaxRuns
    /\ \E action \in {"up", "down"}, dbname \in DbNames :
        /\ args' = [action |-> action, dbname |-> dbname]
        /\ pc' = IF action = "up" THEN "up_admin" ELSE "down_admin"
    /\ runs' = runs + 1
    /\ startDatabases' = databases
    /\ startContent' = content
    /\ UNCHANGED <<databases, content, conn_admin, conn_target, sql_script,
                   cleaned_sql, calls, executed, sql_log, exitCode, prev>>
    /\ UNCHANGED topicVars

\* The process has ended: the operator is back at the prompt, and all that
\* is left of the run is its exit status, its log and the server's state.
ProcessEnd ==
    /\ pc = "done"
    /\ pc' = "idle"
    /\ prev' = [action |-> args.action, dbname |-> args.dbname,
                exitCode |-> exitCode, calls |-> calls]
    /\ args' = [action |-> "none", dbname |-> ""]
    /\ conn_admin' = "none"
    /\ conn_target' = "none"
    /\ sql_script' = <<>>
    /\ cleaned_sql' = <<>>
    /\ calls' = <<>>
    /\ executed' = 0
    /\ sql_log' = <<>>
    /\ exitCode' = -1
    /\ startDatabases' = databases
    /\ startContent' = content
    /\ UNCHANGED <<databases, content, runs>>
    /\ UNCHANGED topicVars

\* get_connection(args, db_override="postgres") of up and down.
ConnectAdmin ==
    /\ pc \in {"up_admin", "down_admin"}
    /\ \E res \in ConnectResults(ConfigDbname("postgres"), databases) :
        /\ calls' = Append(calls, Call("connect_admin", res))
        /\ IF res = "ok"
           THEN /\ conn_admin' = "open"
                /\ pc' = IF pc = "up_admin" THEN "up_create" ELSE "down_drop"
                /\ UNCHANGED exitCode
           ELSE /\ Exit(1)
                /\ UNCHANGED conn_admin
    /\ UNCHANGED <<databases, content, args, conn_target, sql_script,
                   cleaned_sql, executed, sql_log, startDatabases,
                   startContent, prev, runs>>
    /\ UNCHANGED topicVars

\* up, step 1: CREATE DATABASE on the autocommit admin connection, the
\* except clauses, and the close of the finally clause.
UpCreateDatabase ==
    /\ pc = "up_create"
    /\ IF CreateStatements(args.dbname, databases) = <<>>
       THEN /\ calls' = Append(calls, Call("close_admin", "ok"))
            /\ pc' = "up_read"
            /\ UNCHANGED <<databases, exitCode, sql_log>>
       ELSE \E res \in OutsideTransaction(
                        CreateDatabaseResults(args.dbname, databases),
                        AdminAutocommit) :
            /\ databases' = IF res = "ok" THEN databases \cup {args.dbname}
                            ELSE databases
            /\ sql_log' = Append(sql_log,
                    Sql("create_database", ConfigDbname("postgres"),
                        AdminAutocommit))
            /\ calls' = calls \o <<Call("create_database", res),
                                   Call("close_admin", "ok")>>
            /\ IF CreateHandler(res) = "continue"
               THEN pc' = "up_read" /\ UNCHANGED exitCode
               ELSE Exit(1)
    /\ conn_admin' = FinallyClose(conn_admin)
    /\ UNCHANGED <<content, args, conn_target, sql_script, cleaned_sql,
                   executed, startDatabases, startContent, prev, runs>>
    /\ UNCHANGED topicVars

\* up: read SQL_FILE and remove the psql meta-commands.
UpReadSql ==
    /\ pc = "up_read"
    /\ \/ \E text \in SqlFiles :
            /\ sql_script' = text
            /\ cleaned_sql' = CleanSql(text)
            /\ calls' = Append(calls, Call("read_sql", "ok"))
            /\ pc' = "up_target"
            /\ UNCHANGED exitCode
       \/ \* FileNotFoundError: sys.exit(1); another OSError is not caught
          \* and ends the interpreter with status 1
          \E res \in {"not_found", "os_error"} :
            /\ calls' = Append(calls, Call("read_sql", res))
            /\ Exit(1)
            /\ UNCHANGED <<sql_script, cleaned_sql>>
    /\ UNCHANGED <<databases, content, args, conn_admin, conn_target,
                   executed, sql_log, startDatabases, startContent, prev,
                   runs>>
    /\ UNCHANGED topicVars

\* up: get_connection(args) and conn_target.autocommit = False.
UpConnectTarget ==
    /\ pc = "up_target"
    /\ \E res \in ConnectResults(ConfigDbname(""), databases) :
        /\ calls' = Append(calls, Call("connect_target", res))
        /\ IF res = "ok"
           THEN /\ conn_target' = "open"
                /\ pc' = "up_apply"
                /\ UNCHANGED exitCode
           ELSE /\ Exit(1)
                /\ UNCHANGED conn_target
    /\ UNCHANGED <<databases, content, args, conn_admin, sql_script,
                   cleaned_sql, executed, sql_log, startDatabases,
                   startContent, prev, runs>>
    /\ UNCHANGED topicVars

\* up: execute the cleaned script, commit, or roll back and sys.exit(1);
\* close in the finally clause. The first k statements succeed; with
\* k < Len(stmts) statement k + 1 is rejected.
UpApplySchema ==
    /\ pc = "up_apply"
    /\ LET stmts == Statements(cleaned_sql) IN
       \E k \in 0..Len(stmts), commit_ok \in BOOLEAN :
        /\ \A i \in 1..k : Executable(stmts[i])
        /\ k < Len(stmts) => ~commit_ok
        /\ LET complete == k = Len(stmts)
               log == IF complete /\ commit_ok
                      THEN <<Call("execute", "ok"), Call("commit", "ok")>>
                      ELSE IF complete
                      THEN <<Call("execute", "ok"), Call("commit", "error"),
                             Call("rollback", "ok")>>
                      ELSE <<Call("execute", "error"), Call("rollback", "ok")>>
           IN /\ content' = [content EXCEPT ![args.dbname] =
                    Persisted(@, Created(stmts, k), TargetAutocommit,
                              complete /\ commit_ok)]
              /\ executed' = k
              /\ sql_log' = Append(sql_log,
                    Sql("script", ConfigDbname(""), TargetAutocommit))
              /\ calls' = calls \o log \o <<Call("close_target", "ok")>>
              /\ Exit(IF complete /\ commit_ok THEN 0 ELSE 1)
    /\ conn_target' = FinallyClose(conn_target)
    /\ UNCHANGED <<databases, args, conn_admin, sql_script, cleaned_sql,
                   startDatabases, startContent, prev, runs>>
    /\ UNCHANGED topicVars

\* down: DROP DATABASE IF EXISTS on the autocommit admin connection, the
\* except clause, and the close of the finally clause.
DownDropDatabase ==
    /\ pc = "down_drop"
    /\ \E res \in OutsideTransaction(
                    DropDatabaseResults(args.dbname, databases,
                                        ConfigDbname("postgres")),
                    AdminAutocommit) :
        /\ sql_log' = Append(sql_log,
                Sql("drop_database", ConfigDbname("postgres"), AdminAutocommit))
        /\ databases' = IF res = "ok" THEN databases \ {args.dbname}
                        ELSE databases
        /\ content' = IF res = "ok" THEN [content EXCEPT ![args.dbname] = {}]
                      ELSE content
        /\ calls' = calls \o <<Call("drop_database", res),
                               Call("close_admin", "ok")>>
        /\ Exit(IF DropHandler(res) = "continue" THEN 0 ELSE 1)
    /\ conn_admin' = FinallyClose(conn_admin)
    /\ UNCHANGED <<args, conn_target, sql_script, cleaned_sql, executed,
                   startDatabases, startContent, prev, runs>>
    /\ UNCHANGED topicVars

NextDb ==
    \/ Main
    \/ ProcessEnd
    \/ ConnectAdmin
    \/ UpCreateDatabase
    \/ UpReadSql
    \/ UpConnectTarget
    \/ UpApplySchema
    \/ DownDropDatabase

\* ---------------------------------------------------- the Kafka cluster
\* The list of __main__.
topics ==
    << "websocket_fanout", "processing_fanout", "ecommerce_events",
       "ecommerce_processing_fanout", "product-updates", "recommendations",
       "inventory_updates", "inventory-events", "shopping-cart-events",
       "basket-patterns", "order-events", "product-recommendations" >>

\* The universe of topic names: the first NumTopics names of the list.
TopicNames == { topics[i] : i \in 1..NumTopics }

\* The desired lists: every sublist of the universe, in the list's order.
TopicLists ==
    { SelectSeq(SubSeq(topics, 1, NumTopics), LAMBDA n : n \in S) :
        S \in SUBSET TopicNames }

Range(seq) == { seq[i] : i \in DOMAIN seq }

\* Answers of the cluster to a batch create request. A topic of the batch
\* that exists is reported as TopicAlreadyExistsError ("already_exists"),
\* "error" is any other failure.
CreateTopicsResults(names, cluster) ==
    IF names \cap cluster /= {} THEN {"already_exists", "error"}
    ELSE {"ok", "error"}

\* The cluster after a batch create request: every absent topic of the batch
\* is created, unless the request failed, when any part of it may have been.
CreateTopicsEffects(names, cluster, res) ==
    IF res = "error" THEN { cluster \cup S : S \in SUBSET names }
    ELSE { cluster \cup names }

\* Answers of the cluster to a batch delete request. An absent topic of
\* the batch is reported as UnknownTopicOrPartitionError ("unknown_topic")
\* or passed over, depending on the client library.
DeleteTopicsResults(names, cluster) ==
    IF names \subseteq cluster THEN {"ok", "error"}
    ELSE {"unknown_topic", "ok", "error"}

\* The cluster after a batch delete request.
DeleteTopicsEffects(names, cluster, res) ==
    IF res = "error" THEN { cluster \ S : S \in SUBSET names }
    ELSE { cluster \ names }

\* ---------------------------------------------------- manage_topics.py
EnvNames == {"KAFKA_BOOTSTRAP_SERVERS", "KAFKA_USER", "KAFKA_PASSWORD"}

\* os.getenv gives None for a variable that is not set.
EnvValues == {"unset", "empty", "set"}

\* Faulty variant: a test for None only, an empty value passes.
EnvLoadedNotNone(e) == \A k \in EnvNames : e[k] /= "unset"
\* all([KAFKA_BOOTSTRAP_SERVERS, KAFKA_USER, KAFKA_PASSWORD])
EnvLoaded(e) == \A k \in EnvNames : e[k] \notin {"unset", "empty"}

NoTopicRun == [action |-> "none", topic_names |-> <<>>, texit |-> -1,
               clean |-> FALSE]

Request(op, names, res) == [op |-> op, names |-> names, res |-> res]

RequestOps == { requests[i].op : i \in DOMAIN requests }

\* The requests of this run with operation op.
RequestsOf(op) == SelectSeq(requests, LAMBDA r : r.op = op)

\* Faulty variant: every desired name is to be created.
SkipNothing(name, existing) == TRUE
\* Faulty variant: the test inverted.
ToCreateInverted(name, existing) == name \in existing
\* The test of the loop of create_topics: the name is to be created.
ToCreate(name, existing) == ~(name \in existing)

\* topics_to_create of create_topics, by name.
TopicsToCreate(names, existing) ==
    SelectSeq(names, LAMBDA n : ToCreate(n, existing))

\* Faulty variant: no except clause for TopicAlreadyExistsError, and the
\* last one re-raises.
CreateTopicsRaisesExists(res) == res = "already_exists"
\* Faulty variant: the last except clause re-raises.
CreateTopicsRaisesError(res) == res = "error"
\* The except clauses of create_topics: which results raise out of it.
CreateTopicsRaises(res) == FALSE

\* Faulty variant: no except clause for UnknownTopicOrPartitionError, and
\* the last one re-raises.
DeleteTopicsRaisesUnknown(res) == res = "unknown_topic"
\* The except clauses of delete_topics: which results raise out of it.
DeleteTopicsRaises(res) == FALSE

\* The topics argument of the delete request.
DeleteArgument(names, cluster) == names

\* The exit status after the try statement of __main__: the except clause
\* logs the exception and the script runs to its end.
MainExit(raised) == 0

InitTopicVars ==
    /\ clusterTopics \in SUBSET TopicNames
    /\ tpc = "idle"
    /\ environ = [k \in EnvNames |-> "unset"]
    /\ taction = "none"
    /\ topic_names = <<>>
    /\ admin_client = "none"
    /\ existing_topics = {}
    /\ topics_to_create = <<>>
    /\ requests = <<>>
    /\ escaped = FALSE
    /\ texit = -1
    /\ startTopics = clusterTopics
    /\ tprev = NoTopicRun
    /\ raced = {}
    /\ truns = 0

\* The process before its first invocation, on an empty cluster.
IdleTopics ==
    /\ clusterTopics = {}
    /\ tpc = "idle"
    /\ environ = [k \in EnvNames |-> "unset"]
    /\ taction = "none"
    /\ topic_names = <<>>
    /\ admin_client = "none"
    /\ existing_topics = {}
    /\ topics_to_create = <<>>
    /\ requests = <<>>
    /\ escaped = FALSE
    /\ texit = -1
    /\ startTopics = clusterTopics
    /\ tprev = NoTopicRun
    /\ raced = {}
    /\ truns = 0

\* The end of __main__ after the try statement: the finally clause closes
\* the client when there is one, and the script ends.
Finish(log, raised) ==
    /\ requests' = IF admin_client' = "closed"
                   THEN Append(log, Request("close", <<>>, "ok")) ELSE log
    /\ escaped' = raised
    /\ tpc' = "done"
    /\ texit' = MainExit(raised)

\* __main__ up to the try statement: the check of the environment, the
\* arguments, the list of topics.
TopicMain ==
    /\ tpc = "idle"
    /\ pc = "idle"
    /\ runs + truns < MaxRuns
    /\ truns' = truns + 1
    /\ startTopics' = clusterTopics
    /\ \E e \in [EnvNames -> EnvValues] :
        /\ environ' = e
        /\ IF EnvLoaded(e)
           THEN \E action \in {"create", "delete"}, names \in TopicLists :
                    /\ taction' = action
                    /\ topic_names' = names
                    /\ tpc' = "construct"
                    /\ texit' = -1
           ELSE \* raise ValueError: the interpreter ends with status 1
                /\ taction' = "none"
                /\ topic_names' = <<>>
                /\ tpc' = "done"
                /\ texit' = 1
    /\ UNCHANGED <<clusterTopics, admin_client, existing_topics,
                   topics_to_create, requests, escaped, tprev, raced>>
    /\ UNCHANGED dbVars

\* Every request of the run was answered without an error.
RunClean == \A i \in DOMAIN requests : requests[i].res = "ok"

\* The process has ended: the operator is back at the prompt, and all that
\* is left of the run is its exit status, its outcome and the cluster.
TopicProcessEnd ==
    /\ tpc = "done"
    /\ tpc' = "idle"
    /\ tprev' = [action |-> taction, topic_names |-> topic_names,
                 texit |-> texit, clean |-> RunClean]
    /\ environ' = [k \in EnvNames |-> "unset"]
    /\ taction' = "none"
    /\ topic_names' = <<>>
    /\ admin_client' = "none"
    /\ existing_topics' = {}
    /\ topics_to_create' = <<>>
    /\ requests' = <<>>
    /\ escaped' = FALSE
    /\ texit' = -1
    /\ startTopics' = clusterTopics
    /\ raced' = {}
    /\ UNCHANGED <<clusterTopics, truns>>
    /\ UNCHANGED dbVars

\* KafkaAdminClient(...): the connection to the cluster.
Construct ==
    /\ tpc = "construct"
    /\ \/ /\ admin_client' = "open"
          /\ requests' = Append(requests, Request("construct", <<>>, "ok"))
          /\ tpc' = IF taction = "create" THEN "list" ELSE "delete"
          /\ UNCHANGED <<escaped, texit>>
       \/ /\ admin_client' = "none"
          /\ Finish(Append(requests, Request("construct", <<>>, "error")), TRUE)
    /\ UNCHANGED <<clusterTopics, environ, taction, topic_names, existing_topics,
                   topics_to_create, startTopics, tprev, raced, truns>>
    /\ UNCHANGED dbVars

\* create_topics up to the batch request: list_topics, the loop, and the
\* return when there is nothing to create.
CreateList ==
    /\ tpc = "list"
    /\ \/ /\ existing_topics' = clusterTopics
          /\ topics_to_create' = TopicsToCreate(topic_names, clusterTopics)
          /\ LET log == Append(requests, Request("list_topics", <<>>, "ok")) IN
             IF topics_to_create' = <<>>
             THEN /\ admin_client' = "closed"
                  /\ Finish(log, FALSE)
             ELSE /\ requests' = log
                  /\ tpc' = "create"
                  /\ UNCHANGED <<admin_client, escaped, texit>>
       \/ /\ admin_client' = "closed"
          /\ Finish(Append(requests, Request("list_topics", <<>>, "error")), TRUE)
          /\ UNCHANGED <<existing_topics, topics_to_create>>
    /\ UNCHANGED <<clusterTopics, environ, taction, topic_names, startTopics,
                   tprev, raced, truns>>
    /\ UNCHANGED dbVars

\* create_topics: the batch request and its except clauses.
CreateRequest ==
    /\ tpc = "create"
    /\ \E res \in CreateTopicsResults(Range(topics_to_create), clusterTopics) :
        /\ clusterTopics' \in
             CreateTopicsEffects(Range(topics_to_create), clusterTopics, res)
        /\ admin_client' = "closed"
        /\ Finish(Append(requests,
                         Request("create_topics", topics_to_create, res)),
                  CreateTopicsRaises(res))
    /\ UNCHANGED <<environ, taction, topic_names, existing_topics,
                   topics_to_create, startTopics, tprev, raced, truns>>
    /\ UNCHANGED dbVars

\* delete_topics: the batch request and its except clauses.
DeleteRequest ==
    /\ tpc = "delete"
    /\ LET arg == DeleteArgument(topic_names, clusterTopics) IN
       \E res \in DeleteTopicsResults(Range(arg), clusterTopics) :
        /\ clusterTopics' \in DeleteTopicsEffects(Range(arg), clusterTopics, res)
        /\ admin_client' = "closed"
        /\ Finish(Append(requests, Request("delete_topics", arg, res)),
                  DeleteTopicsRaises(res))
    /\ UNCHANGED <<environ, taction, topic_names, existing_topics,
                   topics_to_create, startTopics, tprev, raced, truns>>
    /\ UNCHANGED dbVars

NextTopics ==
    \/ TopicMain
    \/ TopicProcessEnd
    \/ Construct
    \/ CreateList
    \/ CreateRequest
    \/ DeleteRequest

\* Another client of the cluster creates topics after create_topics has
\* listed the existing ones and before it submits its batch.
OtherClientCreates ==
    /\ tpc = "create"
    /\ \E S \in SUBSET (TopicNames \ clusterTopics) :
        /\ S /= {}
        /\ clusterTopics' = clusterTopics \cup S
        /\ raced' = raced \cup S
    /\ UNCHANGED <<tpc, environ, taction, topic_names, admin_client,
                   existing_topics, topics_to_create, requests, escaped, texit,
                   startTopics, tprev, truns>>
    /\ UNCHANGED dbVars

NextRace ==
    \/ NextTopics
    \/ OtherClientCreates

\* ------------------------------------------------------- specifications
\* Successive invocations of manage_db.py against one server.
InitDb == InitDbVars /\ IdleTopics

SpecDb == InitDb /\ [][NextDb]_vars

\* Successive invocations of manage_topics.py against one cluster.
InitTopics == IdleDb /\ InitTopicVars

SpecTopics == InitTopics /\ [][NextTopics]_vars

\* The same, with other clients creating topics on the cluster.
SpecRace == InitTopics /\ [][NextRace]_vars

\* The characters of the scripts the filter is applied to: the escape
\* marker, a blank, the line break, and a character of a statement.
ScriptChars == {BS, SP, NL, "a"}

\* Every text of at most MaxScriptLen characters.
Scripts == UNION { [1..n -> ScriptChars] : n \in 0..MaxScriptLen }

\* up between the read of SQL_FILE and the filter, for any script text.
InitFilter ==
    /\ databases = {"postgres", "ecommerce"}
    /\ content = [d \in DbNames |-> {}]
    /\ pc = "up_clean"
    /\ args = [action |-> "up", dbname |-> "ecommerce"]
    /\ conn_admin = "closed"
    /\ conn_target = "none"
    /\ sql_script \in Scripts
    /\ cleaned_sql = <<>>
    /\ calls = <<Call("connect_admin", "ok"), Call("create_database", "duplicate"),
                 Call("close_admin", "ok"), Call("read_sql", "ok")>>
    /\ executed = 0
    /\ sql_log = <<Sql("create_database", ConfigDbname("postgres"),
                       AdminAutocommit)>>
    /\ exitCode = -1
    /\ startDatabases = databases
    /\ startContent = content
    /\ prev = NoRun
    /\ runs = 1
    /\ IdleTopics

\* up: the removal of the psql meta-commands from sql_script.
CleanScript ==
    /\ pc = "up_clean"
    /\ cleaned_sql' = CleanSql(sql_script)
    /\ pc' = "up_target"
    /\ UNCHANGED <<databases, content, args, conn_admin, conn_target,
                   sql_script, calls, executed, sql_log, exitCode,
                   startDatabases, startContent, prev, runs>>
    /\ UNCHANGED topicVars

\* The filter of manage_db.py applied to every script text.
SpecFilter == InitFilter /\ [][CleanScript]_vars

\* The operator invokes either tool, one invocation at a time (the tools
\* share no state, so that overlapping invocations add no behaviour),
\* MaxRuns invocations in all, against a fresh server and an empty cluster.
Init == IdleDb /\ IdleTopics

Next ==
    \/ NextDb
    \/ NextTopics

Spec == Init /\ [][Next]_vars

\* --------------------------------------------------- manage_db.py: claims
\* The operations of this run, in the order they were issued.
OpSeq == [i \in DOMAIN calls |-> calls[i].op]

UpRun == args.action = "up"
DownRun == args.action = "down"

\* C1: in up, when the execution of the cleaned script fails (at a
\* statement, or at the commit), the transaction is rolled back and never
\* committed with success, the contents of every database are what they
\* were when the run started, and the process exits with a non-zero status.
C1_SchemaFailureRollsBack ==
    (UpRun /\ (ResultOf("execute") = "error" \/ ResultOf("commit") = "error"))
        => /\ pc = "done"
           /\ exitCode = 1
           /\ "rollback" \in Ops
           /\ ResultOf("commit") /= "ok"
           /\ ResultOf("execute") = "error" => "commit" \notin Ops
           /\ content = startContent

\* C1, its case: the script failed after the server had executed at least
\* one of its statements.
C1_Witness ==
    /\ pc = "done"
    /\ UpRun
    /\ ResultOf("execute") = "error"
    /\ executed >= 1
    /\ Created(Statements(cleaned_sql), executed) \ startContent[args.dbname] /= {}

C5_CreateBeforeSchema ==
    UpRun =>
        /\ \A i \in DOMAIN calls :
            calls[i].op \in {"read_sql", "connect_target", "execute", "commit"}
                => \E j \in 1..(i - 1) :
                    /\ calls[j].op = "create_database"
                    /\ calls[j].res \in {"ok", "duplicate"}
                    /\ calls[j + 1].op = "close_admin"
        /\ ResultOf("create_database") = "error"
            => /\ pc = "done"
               /\ exitCode = 1
               /\ conn_target = "none"
               /\ Ops \cap {"read_sql", "connect_target", "execute", "commit"} = {}
               /\ content = startContent

\* C5, its case: create-database was rejected for another reason than
\* duplicate database.
C5_Witness ==
    /\ UpRun
    /\ pc = "done"
    /\ ResultOf("create_database") = "error"

\* C6: when create-database fails with duplicate database, up does not
\* exit at that step: the run is at, or has gone through, the reading of
\* the script, and a run that has ended with status 0 has committed the
\* whole script to the target database.
C6_DuplicateIsSuccess ==
    (UpRun /\ ResultOf("create_database") = "duplicate")
        => /\ pc \in {"up_read", "up_target", "up_apply", "done"}
           /\ pc = "done" => "read_sql" \in Ops
           /\ (pc = "done" /\ exitCode = 0)
                => /\ ResultOf("commit") = "ok"
                   /\ Range(Statements(cleaned_sql)) \subseteq content[args.dbname]

\* C6, its case: a run that met duplicate database and ended with status 0
\* after applying a script of at least one statement.
C6_Witness ==
    /\ UpRun
    /\ ResultOf("create_database") = "duplicate"
    /\ pc = "done"
    /\ exitCode = 0
    /\ executed >= 1

\* C7: a down run that reached the server and met no other failure ends
\* with status 0 and the database absent; dropping a database that was
\* absent changes nothing on the server; and after a successful down the
\* database is absent when the next run starts, so that a second down in
\* succession succeeds as well.
C7_DownIdempotent ==
    DownRun =>
        /\ (pc = "done" /\ ResultOf("connect_admin") = "ok"
                /\ ResultOf("drop_database") /= "error")
            => /\ exitCode = 0
               /\ args.dbname \notin databases
        /\ args.dbname \notin startDatabases
            => /\ databases = startDatabases
               /\ content = startContent
        /\ (prev.action = "down" /\ prev.dbname = args.dbname
                /\ prev.exitCode = 0)
            => args.dbname \notin startDatabases

\* C7, its case: the second of two down runs in succession on the same
\* database has ended, after a first one that succeeded.
C7_Witness ==
    /\ DownRun
    /\ prev.action = "down"
    /\ prev.dbname = args.dbname
    /\ prev.exitCode = 0
    /\ pc = "done"
    /\ "drop_database" \in Ops
    /\ exitCode = 0

\* The steps of an action when each succeeds.
Steps(action) ==
    IF action = "up"
    THEN <<"connect_admin", "create_database", "close_admin", "read_sql",
           "connect_target", "execute", "commit", "close_target">>
    ELSE <<"connect_admin", "drop_database", "close_admin">>

\* C9: the database tool ends with status 0 if and only if it went through
\* every step of the selected action and each succeeded, duplicate
\* database on create counting as success; otherwise with status 1, in
\* particular after a connection failure (admin or target), a
\* create-database failure other than duplicate, a missing or unreadable
\* schema file, a failure of the schema transaction and a drop-database
\* failure.
C9_ExitStatus ==
    pc = "done" =>
        /\ exitCode \in {0, 1}
        /\ exitCode = 0
            <=> /\ OpSeq = Steps(args.action)
                /\ \A i \in DOMAIN calls : calls[i].res \in {"ok", "duplicate"}
        /\ \/ ResultOf("connect_admin") = "operational_error"
           \/ ResultOf("connect_target") = "operational_error"
           \/ ResultOf("create_database") = "error"
           \/ ResultOf("read_sql") \in {"not_found", "os_error"}
           \/ ResultOf("execute") = "error"
           \/ ResultOf("commit") = "error"
           \/ ResultOf("drop_database") = "error"
           => exitCode = 1

\* C9, its case: a down run whose drop-database was rejected has ended.
C9_Witness ==
    /\ pc = "done"
    /\ DownRun
    /\ ResultOf("drop_database") = "error"
    /\ exitCode = 1

\* ----------------------------------------------- manage_topics.py: claims
CreateRun == taction = "create"
DeleteRun == taction = "delete"

\* The result of the request op of this run ("" when it was not made).
RequestResult(op) ==
    IF Len(RequestsOf(op)) = 0 THEN "" ELSE RequestsOf(op)[1].res

\* C2: a create run calls list_topics at most once and submits at most
\* one batch create request; the request names exactly the desired topics
\* that are not in the set list_topics returned, which is the cluster's set
\* at the start of the run; it is submitted whenever that difference is not
\* empty; and when it succeeds the cluster holds the topics it had at the
\* start and every desired topic.
C2_CreateDesiredMinusExisting ==
    CreateRun =>
        /\ Len(RequestsOf("list_topics")) <= 1
        /\ Len(RequestsOf("create_topics")) <= 1
        /\ \A i \in DOMAIN requests :
            requests[i].op = "create_topics"
                => /\ i > 1
                   /\ requests[i - 1] = Request("list_topics", <<>>, "ok")
                   /\ existing_topics = startTopics
                   /\ Range(requests[i].names)
                        = Range(topic_names) \ existing_topics
                   /\ Len(requests[i].names)
                        = Cardinality(Range(requests[i].names))
        /\ (tpc = "done" /\ RequestResult("list_topics") = "ok"
                /\ Range(topic_names) \ startTopics /= {})
            => Len(RequestsOf("create_topics")) = 1
        /\ (tpc = "done" /\ RequestResult("create_topics") = "ok")
            => clusterTopics = startTopics \cup Range(topic_names)

\* C2, its case: three desired topics of which one exists; the request for
\* the other two has succeeded.
C2_Witness ==
    /\ CreateRun
    /\ tpc = "done"
    /\ Len(topic_names) = 3
    /\ Cardinality(Range(topic_names) \cap startTopics) = 1
    /\ RequestResult("create_topics") = "ok"
    /\ Len(RequestsOf("create_topics")[1].names) = 2

\* C3: a create run in which every desired topic exists at the start, such
\* as the second of two create runs in succession with the same list after
\* a first one that succeeded, submits no create request and leaves the
\* cluster's topic set as it was; after the second run the set is the one
\* the first run left, with every desired topic in it.
C3_CreateIdempotent ==
    CreateRun =>
        /\ Range(topic_names) \subseteq startTopics
            => /\ "create_topics" \notin RequestOps
               /\ clusterTopics = startTopics
        /\ (tprev.action = "create" /\ tprev.topic_names = topic_names
                /\ tprev.clean /\ tprev.texit = 0)
            => /\ Range(topic_names) \subseteq startTopics
               /\ "create_topics" \notin RequestOps
               /\ clusterTopics = startTopics

\* C3, its case: the second of two create runs in succession with the
\* same list of two topics or more has listed the topics and ended.
C3_Witness ==
    /\ CreateRun
    /\ tprev.action = "create"
    /\ tprev.topic_names = topic_names
    /\ tprev.clean
    /\ Len(topic_names) >= 2
    /\ tpc = "done"
    /\ RequestResult("list_topics") = "ok"

\* C8: a delete run makes no existence check and submits at most one batch
\* delete request, which names the whole desired list whatever exists; a
\* run that got its client has submitted exactly one when it ends; no
\* exception leaves delete_topics, and the tool ends with status 0, also
\* when topics of the list are absent and in a second delete run in
\* succession.
C8_DeleteFullListTolerant ==
    DeleteRun =>
        /\ "list_topics" \notin RequestOps
        /\ Len(RequestsOf("delete_topics")) <= 1
        /\ \A i \in DOMAIN requests :
            requests[i].op = "delete_topics" => requests[i].names = topic_names
        /\ (tpc = "done" /\ RequestResult("construct") = "ok")
            => /\ Len(RequestsOf("delete_topics")) = 1
               /\ ~escaped
               /\ texit = 0

\* C8, its case: the second of two delete runs in succession with the same
\* list was answered that topics of the list do not exist.
C8_Witness ==
    /\ DeleteRun
    /\ tprev.action = "delete"
    /\ tprev.topic_names = topic_names
    /\ tprev.clean
    /\ tpc = "done"
    /\ RequestResult("delete_topics") = "unknown_topic"
    /\ Range(topic_names) \cap startTopics = {}

\* C10: when the admin client cannot be constructed, the process ends at
\* once with a non-zero status, having issued no list, create or delete
\* request and having made one attempt to connect.
C10_ConnectivityFatal ==
    RequestResult("construct") = "error"
        => /\ tpc = "done"
           /\ texit > 0
           /\ RequestOps \cap {"list_topics", "create_topics", "delete_topics"} = {}
           /\ Len(RequestsOf("construct")) = 1


\* C11: create-database and drop-database are executed on a connection
\* that is not bound to the target database, whatever the name given for
\* the target.
C11_AdminNeverTarget ==
    \A i \in DOMAIN sql_log :
        sql_log[i].stmt \in {"create_database", "drop_database"}
            => sql_log[i].db /= args.dbname


\* C12: when topics of the batch were created by another client between
\* the listing and the batch request and the cluster reports that topics
\* already exist, the report is only a warning: no exception leaves
\* create_topics, the request is not repeated, the tool ends with status 0,
\* and every topic of the batch exists, those that were still absent
\* having been created by the batch.
C12_RaceIsWarning ==
    (CreateRun /\ RequestResult("create_topics") = "already_exists")
        => /\ tpc = "done"
           /\ ~escaped
           /\ texit = 0
           /\ Len(RequestsOf("create_topics")) = 1
           /\ raced \cap Range(topics_to_create) /= {}
           /\ Range(topics_to_create) \subseteq clusterTopics
           /\ startTopics \subseteq clusterTopics

\* C12, its case: the report came for a batch of which a topic had not
\* been created by the other client.
C12_Witness ==
    /\ CreateRun
    /\ tpc = "done"
    /\ RequestResult("create_topics") = "already_exists"
    /\ Range(topics_to_create) \ raced /= {}
    /\ Range(topics_to_create) \ raced \subseteq clusterTopics


\* The requests of this run from the first one with operation op on.
RequestsFrom(op) ==
    LET first == CHOOSE i \in DOMAIN requests :
                    /\ requests[i].op = op
                    /\ \A j \in 1..(i - 1) : requests[j].op /= op
    IN [k \in 1..(Len(requests) - first + 1) |-> requests[first + k - 1].op]

\* C13: when the batch create or the batch delete request fails for
\* another reason than already-exists or not-found, the failure is logged
\* and the run goes on to its normal end with status 0: no exception
\* leaves create_topics or delete_topics, the request is not repeated,
\* and nothing follows it but the close of the client, so that what the
\* batch created or deleted stays as the cluster left it.
C13_BatchFailureIsPartialSuccess ==
    /\ (CreateRun /\ RequestResult("create_topics") = "error")
        => /\ tpc = "done"
           /\ texit = 0
           /\ ~escaped
           /\ RequestsFrom("create_topics") = <<"create_topics", "close">>
           /\ startTopics \subseteq clusterTopics
           /\ clusterTopics \subseteq startTopics \cup Range(topics_to_create)
    /\ (DeleteRun /\ RequestResult("delete_topics") = "error")
        => /\ tpc = "done"
           /\ texit = 0
           /\ ~escaped
           /\ RequestsFrom("delete_topics") = <<"delete_topics", "close">>
           /\ clusterTopics \subseteq startTopics
           /\ startTopics \ Range(topic_names) \subseteq clusterTopics

\* C13, its case: a batch create request failed after the cluster had
\* created a part of the batch.
C13_Witness ==
    /\ CreateRun
    /\ tpc = "done"
    /\ RequestResult("create_topics") = "error"
    /\ clusterTopics /= startTopics
    /\ ~(Range(topics_to_create) \subseteq clusterTopics)

\* The result of the call op of the previous run ("" when not made).
PrevResultOf(op) ==
    IF \E i \in DOMAIN prev.calls : prev.calls[i].op = op
    THEN prev.calls[CHOOSE i \in DOMAIN prev.calls : prev.calls[i].op = op].res
    ELSE ""

\* The previous run was an up of the same database that created it and
\* then failed.
AfterFailedUp ==
    /\ UpRun
    /\ prev.action = "up"
    /\ prev.dbname = args.dbname
    /\ PrevResultOf("create_database") = "ok"
    /\ prev.exitCode = 1

\* C14: after an up run that created the database and then failed, during
\* the schema application or before it, the database exists and holds
\* nothing of the script; a following up run is answered duplicate
\* database (or another error) on create, never creates the database anew,
\* does not stop at a duplicate, and when its script is executed and
\* committed it ends with status 0 and the database holds exactly the
\* script's statements.
C14_PartialPriorState ==
    AfterFailedUp =>
        /\ args.dbname \in startDatabases
        /\ startContent[args.dbname] = {}
        /\ ResultOf("create_database") \in {"", "duplicate", "error"}
        /\ (ResultOf("create_database") = "duplicate" /\ pc = "done")
            => "read_sql" \in Ops
        /\ (pc = "done" /\ ResultOf("execute") = "ok"
                /\ ResultOf("commit") = "ok")
            => /\ ResultOf("create_database") = "duplicate"
               /\ exitCode = 0
               /\ content[args.dbname] = Range(Statements(cleaned_sql))

\* C14, its case: the first run failed while executing the script, after
\* a statement had been executed; the second has applied its script.
C14_Witness ==
    /\ AfterFailedUp
    /\ PrevResultOf("execute") = "error"
    /\ pc = "done"
    /\ exitCode = 0
    /\ executed >= 2


\* One of the three variables is missing or empty in the environment of
\* this run.
CredentialsMissing ==
    \E k \in EnvNames : environ[k] = "unset" \/ environ[k] = "empty"

\* C16: whenever KAFKA_BOOTSTRAP_SERVERS, KAFKA_USER or KAFKA_PASSWORD is
\* missing or empty, the topic tool ends with a non-zero status before it
\* constructs the admin client: no client, no request of any kind, the
\* cluster as it was; a constructor call implies all three were set.
C16_AbortsBeforeConnecting ==
    /\ (tpc /= "idle" /\ CredentialsMissing)
        => /\ tpc = "done"
           /\ texit = 1
           /\ requests = <<>>
           /\ admin_client = "none"
           /\ clusterTopics = startTopics
    /\ "construct" \in RequestOps => ~CredentialsMissing

\* C16, its case: a run ended with the password set to the empty string
\* and the other two set.
C16_Witness ==
    /\ tpc = "done"
    /\ texit = 1
    /\ environ["KAFKA_PASSWORD"] = "empty"
    /\ environ["KAFKA_BOOTSTRAP_SERVERS"] = "set"
    /\ environ["KAFKA_USER"] = "set"

\* The calls of this run with operation op.
CallsOf(op) == SelectSeq(calls, LAMBDA c : c.op = op)

\* CREATE DATABASE and DROP DATABASE are executed with autocommit on, the
\* script with autocommit off, in one execute call.
AutocommitDiscipline ==
    /\ \A i \in DOMAIN sql_log :
        /\ sql_log[i].stmt \in {"create_database", "drop_database"}
            => sql_log[i].autocommit
        /\ sql_log[i].stmt = "script" => ~sql_log[i].autocommit
    /\ Len(CallsOf("execute")) <= 1
    /\ Len(SelectSeq(sql_log, LAMBDA s : s.stmt = "script"))
        = Len(CallsOf("execute"))

\* C17 as stated: create-database and drop-database run with autocommit
\* enabled beforehand, the script with autocommit disabled as a single
\* transaction; commit is issued exactly once when execution succeeds and
\* never when it fails, rollback is issued only when execution fails, and
\* commit and rollback never both occur in one run.
C17_TransactionBoundaries ==
    /\ AutocommitDiscipline
    /\ pc = "done" =>
        /\ ResultOf("execute") = "ok" => Len(CallsOf("commit")) = 1
        /\ ResultOf("execute") /= "ok" => Len(CallsOf("commit")) = 0
        /\ "rollback" \in Ops => ResultOf("execute") = "error"
        /\ ~("commit" \in Ops /\ "rollback" \in Ops)

\* C17, amended: the same, but rollback is issued exactly when the
\* execution or the commit fails, so that a failed commit is followed by a
\* rollback in the same run; a commit that succeeded and a rollback never
\* both occur.
C17_RollbackOnAnyFailure ==
    /\ AutocommitDiscipline
    /\ pc = "done" =>
        /\ ResultOf("execute") = "ok" => Len(CallsOf("commit")) = 1
        /\ ResultOf("execute") /= "ok" => Len(CallsOf("commit")) = 0
        /\ Len(CallsOf("rollback")) <= 1
        /\ "rollback" \in Ops
            <=> \/ ResultOf("execute") = "error"
                \/ ResultOf("commit") = "error"
        /\ ~(ResultOf("commit") = "ok" /\ "rollback" \in Ops)

\* C17, its case: the script was executed, the commit failed and was
\* followed by a rollback.
C17_Witness ==
    /\ pc = "done"
    /\ ResultOf("execute") = "ok"
    /\ ResultOf("commit") = "error"
    /\ "rollback" \in Ops
    /\ Len(sql_log) = 2


\* ------------------------------------------- manage_db.py: the filter
\* The first character of the line that is not white space is a backslash.
MarkerLine(line) ==
    \E i \in DOMAIN line :
        /\ line[i] = BS
        /\ \A j \in 1..(i - 1) : line[j] \in {SP, TAB}

\* The lines of the text that are no marker lines, in their order.
UnmarkedLines(text) ==
    LET lines == Split(text, NL)
        keep == { i \in DOMAIN lines : ~MarkerLine(lines[i]) }
        Nth(k) == CHOOSE i \in keep :
                    Cardinality({ j \in keep : j <= i }) = k
    IN [k \in 1..Cardinality(keep) |-> lines[Nth(k)]]

\* The script with its marker lines removed by hand.
RemovedByHand(text) == Join(UnmarkedLines(text), NL)

\* C18: the text executed is the script's lines in their order, with
\* every line whose first non-whitespace character is a backslash removed
\* and every other line unchanged; filtering the filtered text changes
\* nothing; and the script with the marker lines removed by hand gives the
\* same executed text.
C18_FilterExact ==
    pc = "up_target" =>
        /\ cleaned_sql = Join(UnmarkedLines(sql_script), NL)
        /\ \A i \in DOMAIN Split(cleaned_sql, NL) :
            ~MarkerLine(Split(cleaned_sql, NL)[i])
        /\ CleanSql(cleaned_sql) = cleaned_sql
        /\ CleanSql(RemovedByHand(sql_script)) = cleaned_sql

\* C18, its case: a statement line followed by an indented marker line.
C18_Witness ==
    /\ pc = "up_target"
    /\ sql_script = <<"a", NL, SP, BS>>
    /\ cleaned_sql = <<"a">>


\* ------------------------------------------------- both tools: claims
\* The requests of manage_db.py that change the server.
DbMutating == {"create_database", "execute", "drop_database"}

\* Its connection attempts.
DbConnects == {"connect_admin", "connect_target"}

\* The requests of manage_topics.py that change the cluster.
TopicMutating == {"create_topics", "delete_topics"}

\* Every mutating request and every connection attempt of the run in
\* progress was issued at most once.
IssuedAtMostOnce ==
    /\ \A op \in DbMutating \cup DbConnects : Len(CallsOf(op)) <= 1
    /\ \A op \in TopicMutating \cup {"construct"} : Len(RequestsOf(op)) <= 1

\* No mutating request follows a call or request of the run in progress
\* that failed, a failure being a result outside passed.
NothingAfter(passed) ==
    /\ \A i \in DOMAIN calls, j \in DOMAIN calls :
        (i < j /\ calls[i].op \in DbMutating \cup DbConnects
            /\ calls[i].res \notin passed)
        => calls[j].op \notin DbMutating
    /\ \A i \in DOMAIN requests, j \in DOMAIN requests :
        (i < j /\ requests[i].op \in TopicMutating \cup {"construct"}
            /\ requests[i].res \notin passed)
        => requests[j].op \notin TopicMutating

\* C15 as stated: in one invocation of either tool each mutating request
\* and each connection attempt is issued at most once, and after any of
\* them fails no further mutating request is issued.
C15_NoRetries ==
    /\ IssuedAtMostOnce
    /\ NothingAfter({"ok"})

\* C15, amended: the same, except that a create-database that fails with
\* duplicate database is followed by the execution of the schema script.
C15_NoRetriesButDuplicate ==
    /\ IssuedAtMostOnce
    /\ NothingAfter({"ok", "duplicate"})
    /\ \A i \in DOMAIN calls :
        calls[i].res = "duplicate" => calls[i].op = "create_database"

\* C15, its case: after an invocation of the topic tool, an up run whose
\* create-database failed with duplicate database has executed the script.
C15_Witness ==
    /\ truns >= 1
    /\ pc = "done"
    /\ ResultOf("create_database") = "duplicate"
    /\ "execute" \in Ops

\* C19: every connection or client a tool opens is closed when its
\* process ends, on every path: the admin connection of up and down, the
\* target connection of up, the Kafka admin client; and in up the admin
\* connection is closed before the target connection is opened, so that
\* at most one database connection is open at any time.
C19_EverythingClosed ==
    /\ pc = "done" =>
        /\ conn_admin /= "open"
        /\ conn_target /= "open"
        /\ ResultOf("connect_admin") = "ok"
            => conn_admin = "closed" /\ Len(CallsOf("close_admin")) = 1
        /\ ResultOf("connect_target") = "ok"
            => conn_target = "closed" /\ Len(CallsOf("close_target")) = 1
    /\ ~(conn_admin = "open" /\ conn_target = "open")
    /\ conn_target /= "none" => conn_admin = "closed"
    /\ "connect_target" \in Ops => "close_admin" \in Ops
    /\ tpc = "done" =>
        /\ admin_client /= "open"
        /\ RequestResult("construct") = "ok"
            => /\ admin_client = "closed"
               /\ requests[Len(requests)].op = "close"
               /\ Len(RequestsOf("close")) = 1

\* C19, its case: after an invocation of the topic tool that opened a
\* client, an up run ended on a failed schema application with both of
\* its connections closed.
C19_Witness ==
    /\ truns >= 1
    /\ tprev.action \in {"create", "delete"}
    /\ pc = "done"
    /\ exitCode = 1
    /\ ResultOf("execute") = "error"
    /\ conn_admin = "closed"
    /\ conn_target = "closed"

====
